---------------------------- MODULE Spec2Model ----------------------------
(***************************************************************************)
(* Model of the IngestionDashboard component (src/app/page.tsx, the        *)
(* version with the two upload tabs and the monthly DRE tab): the upload   *)
(* handler, the polling effect with its interval timer, the log transcript *)
(* and the user-interface gates that enable or disable the handlers.       *)
(*                                                                         *)
(* One action is one run of a handler or of the continuation of an await,  *)
(* followed by the render React commits for the state it set and by the    *)
(* polling effect (cleanup, then body) when one of the effect's            *)
(* dependencies changed.  Requests in flight are part of the state; the    *)
(* server and the network choose each response.                            *)
(***************************************************************************)
EXTENDS Integers, Sequences, FiniteSets, TLC

(* ------------------------------ bounds -------------------------------- *)

\* How many times handleUpload may start an upload in one behaviour.
MaxUploads == 3

\* How many get_logs requests may be outstanding at once.
MaxInFlight == 2

\* How many monthly_dre requests may be outstanding at once.
MaxReportsInFlight == 2

(* ---------------------------- JS values ------------------------------- *)

\* null of File | null and string | null.
Null == "<null>"

\* data.job_id of a response body that has no such field.
Undefined == "<undefined>"

\* pollingIntervalRef.current === null; timer handles are positive.
NoTimer == 0

JsUndef == [t |-> "undefined"]

JsStr(s) == [t |-> "string", s |-> s]

\* An object whose only interesting property is `message`.
JsObj(m) == [t |-> "object", message |-> m]

\* JavaScript truthiness of the values above.
Truthy(v) ==
    CASE v.t = "undefined" -> FALSE
      [] v.t = "string"    -> v.s # ""
      [] v.t = "object"    -> TRUE

\* a || b
OrElse(a, b) == IF Truthy(a) THEN a ELSE b

\* v?.message
OptMessage(v) == IF v.t = "object" THEN v.message ELSE JsUndef

\* String(v), which is what new Error(v) does with its argument.
ToStr(v) ==
    CASE v.t = "undefined" -> "undefined"
      [] v.t = "string"    -> v.s
      [] v.t = "object"    -> "[object Object]"

\* if (currentJobId && ...): a string | null | undefined used as a condition.
TruthyId(id) == id # Null /\ id # Undefined /\ id # ""

\* text.includes(pat)
Includes(text, pat) ==
    \E i \in 1..(Len(text) - Len(pat) + 1) :
        SubSeq(text, i, i + Len(pat) - 1) = pat

(* ------------------------- inputs of the model ------------------------ *)

\* Names of the files the user may pick.
FileNames == {"a.pdf"}

BankEndpoint == "/api/ingest"

InternalEndpoint == "/api/ingest_internal"

\* The job id the server returns for its n-th successful upload.
JobIdOf(n) == IF n = 1 THEN "abc" ELSE "job" \o ToString(n)

Log(type, text) == [type |-> type, text |-> text]

LogTypes == {"info", "success", "error", "server"}

\* The `logs` arrays a get_logs response may carry.
Batches ==
    { <<>>,
      <<Log("server", "Saved rows"), Log("success", "Saved rows")>>,
      <<Log("success", "Job abc finished successfully")>>,
      <<Log("error", "Job abc failed")>>,
      <<Log("error", "Job abc failed"), Log("info", "Job abc finished successfully")>> }

\* Bodies of a non-2xx upload response: { detail: string | { message } }.
ErrorBodies ==
    { [detail |-> JsObj(JsStr("Invalid file"))],
      [detail |-> JsStr("Bad request")],
      [detail |-> JsObj(JsUndef)],
      [detail |-> JsUndef] }

\* What fetch / response.json() reject with.
NetworkError == [isError |-> TRUE, message |-> "Failed to fetch"]

ParseError == [isError |-> TRUE, message |-> "Unexpected token < in JSON"]

NewError(msg) == [isError |-> TRUE, message |-> msg]

StatusTexts == {"Internal Server Error"}

\* The date at construction, as the strings the report period starts with.
Today == [year |-> "2026", month |-> "11"]

\* The values the Month and the Year Select offer.
MonthOptions == { ToString(k) : k \in 1..12 }

YearOptions == {"2023", "2024", "2025", "2026"}

\* The options the user picks in the model.
MonthChoices == {"1", "12"}

YearChoices == {"2023", "2026"}

\* The DREData the server computes for a period, named by that period.
DreFor(year, month) == "DRE " \o month \o "/" \o year

(* ------------------------------ state --------------------------------- *)

VARIABLES
    mounted,             \* the component is mounted
    bankFile,            \* useState<File | null>, a file is its name
    internalFile,        \* useState<File | null>
    isProcessing,        \* useState<boolean>
    currentJobId,        \* useState<string | null>
    logMessages,         \* useState<LogMessage[]>
    pollingIntervalRef,  \* useRef: handle of the interval, or NoTimer
    timers,              \* live intervals: [h |-> handle, job |-> captured id]
    uploadReqs,          \* upload POSTs in flight, in issue order
    pollReqs,            \* get_logs GETs in flight, in issue order
    uploads,             \* uploads started so far
    jobsIssued,          \* job ids the server has issued so far
    stopped              \* job ids whose interval has been cleared

\* The state of the DRE report tab and the GETs of
\* /api/reports/monthly_dre in flight, each with the period it asked for.
VARIABLES reportYear, reportMonth, dreData, isReportLoading, reportReqs

\* The "Monthly DRE" tab is the active one of the three tabs; when it is
\* not, one of the two upload tabs is.
VARIABLE dreTabActive

reportVars == <<reportYear, reportMonth, dreData, isReportLoading, reportReqs,
                dreTabActive>>

vars == <<mounted, bankFile, internalFile, isProcessing, currentJobId,
          logMessages, pollingIntervalRef, timers, uploadReqs, pollReqs,
          uploads, jobsIssued, stopped, reportVars>>

Init ==
    /\ mounted = TRUE
    /\ bankFile = Null
    /\ internalFile = Null
    /\ isProcessing = FALSE
    /\ currentJobId = Null
    /\ logMessages = <<Log("info", "Waiting for file...")>>
    /\ pollingIntervalRef = NoTimer
    /\ timers = {}
    /\ uploadReqs = <<>>
    /\ pollReqs = <<>>
    /\ uploads = 0
    /\ jobsIssued = 0
    /\ stopped = {}
    /\ reportYear = Today.year
    /\ reportMonth = Today.month
    /\ dreData = Null
    /\ isReportLoading = FALSE
    /\ reportReqs = <<>>
    /\ dreTabActive = FALSE


(* ----------------------------- helpers -------------------------------- *)

\* The texts of a list of log messages: new Set(logs.map(log => log.text)).
Texts(logs) == { logs[k].text : k \in 1..Len(logs) }

\* addLogs with the new entries put in front of the transcript.
addLogsNewestFirst(currentLogs, newLogs) ==
    LET existingTexts == Texts(currentLogs)
        notSeen(log) == log.text \notin existingTexts
        filteredNewLogs == SelectSeq(newLogs, notSeen)
    IN  IF Len(filteredNewLogs) > 0
        THEN filteredNewLogs \o currentLogs
        ELSE currentLogs

\* addLogs returning only the new entries, without the current transcript.
addLogsDropsOld(currentLogs, newLogs) ==
    LET existingTexts == Texts(currentLogs)
        filteredNewLogs ==
            SelectSeq(newLogs, LAMBDA log : log.text \notin existingTexts)
    IN  IF Len(filteredNewLogs) > 0 THEN filteredNewLogs ELSE currentLogs

\* addLogs: the value the functional update gives the transcript.
addLogs(currentLogs, newLogs) ==
    LET existingTexts == Texts(currentLogs)
        notSeen(log) == log.text \notin existingTexts
        filteredNewLogs == SelectSeq(newLogs, notSeen)
    IN  IF Len(filteredNewLogs) > 0
        THEN currentLogs \o filteredNewLogs
        ELSE currentLogs

\* stopPolling that nulls the ref without calling clearInterval.
stopPollingKeepsTimer(ref, tm) == [ref |-> NoTimer, timers |-> tm]

\* stopPolling, on the ref and the set of live intervals.
stopPolling(ref, tm) ==
    IF ref # NoTimer
    THEN [ref |-> NoTimer, timers |-> { t \in tm : t.h # ref }]
    ELSE [ref |-> ref, timers |-> tm]

\* The handle setInterval returns: one no live interval and no ref holds.
NewHandle(ref, tm) ==
    CHOOSE h \in 1..(Cardinality(tm) + 2) :
        h # ref /\ \A t \in tm : t.h # h

\* An effect that returns no cleanup.
EffectCleanupSkipped(ref, tm) == [ref |-> ref, timers |-> tm]

\* The cleanup the polling effect returns: () => stopPolling().
EffectCleanup(ref, tm) == stopPolling(ref, tm)

\* The body of the polling effect, run with the committed state.
EffectBody(job, proc, ref, tm) ==
    IF TruthyId(job) /\ proc
    THEN LET h == NewHandle(ref, tm)
         IN  [ref |-> h, timers |-> tm \cup {[h |-> h, job |-> job]}]
    ELSE [ref |-> ref, timers |-> tm]

\* useEffect(..., [currentJobId, isProcessing]): nothing when the dependencies
\* are the same as at the last render, else the cleanup and then the body.
pollingEffect(oldJob, oldProc, job, proc, r) ==
    IF oldJob = job /\ oldProc = proc
    THEN r
    ELSE LET c == EffectCleanup(r.ref, r.timers)
         IN  EffectBody(job, proc, c.ref, c.timers)

\* The ref and the intervals as the component holds them now.
Held == [ref |-> pollingIntervalRef, timers |-> timers]

\* The render committed after a handler set currentJobId and isProcessing
\* and left the ref and the intervals as r.
Render(job, proc, r) ==
    LET e == pollingEffect(currentJobId, isProcessing, job, proc, r)
    IN  /\ currentJobId' = job
        /\ isProcessing' = proc
        /\ pollingIntervalRef' = e.ref
        /\ timers' = e.timers
        /\ stopped' = stopped \cup { t.job : t \in timers \ e.timers }

\* error instanceof Error ? error.message : "An unknown error occurred"
ErrorMessage(error) ==
    IF error.isError THEN error.message ELSE "An unknown error occurred"

\* The test without its check of the kind of the entry.
IsTerminalAnyKind(lastLog) == Includes(lastLog.text, "Job")

\* The test the polling callback makes on the last log of a batch.
IsTerminal(lastLog) ==
    /\ lastLog.type = "success" \/ lastLog.type = "error"
    /\ Includes(lastLog.text, "Job")

\* disabled={isProcessing} of the FileButton of an upload area.
FileButtonDisabled == isProcessing

\* An upload button that is disabled only when no file is selected.
UploadButtonIgnoresBusy(file) == file = Null

\* disabled={!file || isProcessing} of an upload button.
UploadButtonDisabled(file) == file = Null \/ isProcessing

\* s without its i-th element.
RemoveAt(s, i) == SubSeq(s, 1, i - 1) \o SubSeq(s, i + 1, Len(s))

(* -------------------------- user interface --------------------------- *)

\* onBankFileChange without its setCurrentJobId(null).
onBankFileChangeKeepsJob(selectedFile) ==
    /\ mounted
    /\ ~dreTabActive
    /\ ~FileButtonDisabled
    /\ IF selectedFile # Null
       THEN /\ bankFile' = selectedFile
            /\ logMessages' =
                 <<Log("info", "Bank file selected: " \o selectedFile)>>
            /\ Render(currentJobId, isProcessing, Held)
       ELSE UNCHANGED <<bankFile, logMessages, currentJobId, isProcessing,
                        pollingIntervalRef, timers, stopped>>
    /\ UNCHANGED reportVars
    /\ UNCHANGED <<mounted, internalFile, uploadReqs, pollReqs, uploads,
                   jobsIssued>>

\* FileButton onChange of the bank tab: onBankFileChange(selectedFile).
onBankFileChange(selectedFile) ==
    /\ mounted
    /\ ~dreTabActive
    /\ ~FileButtonDisabled
    /\ IF selectedFile # Null
       THEN /\ bankFile' = selectedFile
            /\ logMessages' =
                 <<Log("info", "Bank file selected: " \o selectedFile)>>
            /\ Render(Null, isProcessing, Held)
       ELSE UNCHANGED <<bankFile, logMessages, currentJobId, isProcessing,
                        pollingIntervalRef, timers, stopped>>
    /\ UNCHANGED reportVars
    /\ UNCHANGED <<mounted, internalFile, uploadReqs, pollReqs, uploads,
                   jobsIssued>>

\* onInternalFileChange logging through addLogs instead of setLogMessages.
onInternalFileChangeAppends(selectedFile) ==
    /\ mounted
    /\ ~dreTabActive
    /\ ~FileButtonDisabled
    /\ IF selectedFile # Null
       THEN /\ internalFile' = selectedFile
            /\ logMessages' = addLogs(logMessages,
                 <<Log("info", "Internal file selected: " \o selectedFile)>>)
            /\ Render(Null, isProcessing, Held)
       ELSE UNCHANGED <<internalFile, logMessages, currentJobId, isProcessing,
                        pollingIntervalRef, timers, stopped>>
    /\ UNCHANGED reportVars
    /\ UNCHANGED <<mounted, bankFile, uploadReqs, pollReqs, uploads,
                   jobsIssued>>

\* FileButton onChange of the internal tab: onInternalFileChange(selectedFile).
onInternalFileChange(selectedFile) ==
    /\ mounted
    /\ ~dreTabActive
    /\ ~FileButtonDisabled
    /\ IF selectedFile # Null
       THEN /\ internalFile' = selectedFile
            /\ logMessages' =
                 <<Log("info", "Internal file selected: " \o selectedFile)>>
            /\ Render(Null, isProcessing, Held)
       ELSE UNCHANGED <<internalFile, logMessages, currentJobId, isProcessing,
                        pollingIntervalRef, timers, stopped>>
    /\ UNCHANGED reportVars
    /\ UNCHANGED <<mounted, bankFile, uploadReqs, pollReqs, uploads,
                   jobsIssued>>

\* handleUpload without its `if (!file)` guard: it starts an upload anyway.
handleUploadNoGuard(file, endpoint) ==
    /\ logMessages' = addLogs(<<>>,
         <<Log("info", "Uploading " \o file \o " to " \o endpoint \o "...")>>)
    /\ Render(Null, TRUE, Held)
    /\ uploadReqs' = Append(uploadReqs, [file |-> file, endpoint |-> endpoint])
    /\ uploads' = uploads + 1
    /\ UNCHANGED reportVars
    /\ UNCHANGED <<mounted, bankFile, internalFile, pollReqs, jobsIssued>>

\* handleUpload without `setLogMessages([])`: the entry joins the old transcript.
handleUploadNoReset(file, endpoint) ==
    /\ IF file = Null
       THEN /\ logMessages' = addLogs(logMessages,
                 <<Log("error", "No file selected to upload.")>>)
            /\ UNCHANGED <<currentJobId, isProcessing, pollingIntervalRef,
                           timers, stopped, uploadReqs, uploads>>
       ELSE /\ logMessages' = addLogs(logMessages,
                 <<Log("info", "Uploading " \o file \o " to " \o endpoint \o "...")>>)
            /\ Render(Null, TRUE, Held)
            /\ uploadReqs' = Append(uploadReqs,
                                    [file |-> file, endpoint |-> endpoint])
            /\ uploads' = uploads + 1
    /\ UNCHANGED reportVars
    /\ UNCHANGED <<mounted, bankFile, internalFile, pollReqs, jobsIssued>>

\* handleUpload(file, endpoint), up to its await of the POST.
handleUpload(file, endpoint) ==
    /\ IF file = Null
       THEN /\ logMessages' = addLogs(logMessages,
                 <<Log("error", "No file selected to upload.")>>)
            /\ UNCHANGED <<currentJobId, isProcessing, pollingIntervalRef,
                           timers, stopped, uploadReqs, uploads>>
       ELSE /\ logMessages' = addLogs(<<>>,
                 <<Log("info", "Uploading " \o file \o " to " \o endpoint \o "...")>>)
            /\ Render(Null, TRUE, Held)
            /\ uploadReqs' = Append(uploadReqs,
                                    [file |-> file, endpoint |-> endpoint])
            /\ uploads' = uploads + 1
    /\ UNCHANGED reportVars
    /\ UNCHANGED <<mounted, bankFile, internalFile, pollReqs, jobsIssued>>

\* Click on "Upload Bank Statement".
ClickUploadBank ==
    /\ mounted
    /\ ~dreTabActive
    /\ ~UploadButtonDisabled(bankFile)
    /\ uploads < MaxUploads
    /\ handleUpload(bankFile, BankEndpoint)

\* Click on "Upload Internal Report".
ClickUploadInternal ==
    /\ mounted
    /\ ~dreTabActive
    /\ ~UploadButtonDisabled(internalFile)
    /\ uploads < MaxUploads
    /\ handleUpload(internalFile, InternalEndpoint)

(* ------------------------- upload continuation ------------------------ *)

\* What `throw new Error(data.detail?.message || data.detail || 'Upload failed')`
\* throws for the body of a non-2xx response.
UploadThrown(data) ==
    NewError(ToStr(OrElse(OrElse(OptMessage(data.detail), data.detail),
                          JsStr("Upload failed"))))

\* Everything the try block of handleUpload may throw.
UploadErrors ==
    { UploadThrown(b) : b \in ErrorBodies } \cup {NetworkError, ParseError}

\* The catch branch of handleUpload.
UploadCatch(error) ==
    /\ logMessages' = addLogs(logMessages,
         <<Log("error", "Upload failed: " \o ErrorMessage(error))>>)
    /\ Render(currentJobId, FALSE, Held)
    /\ bankFile' = Null
    /\ internalFile' = Null

\* No state setter takes effect: the continuation calls none, or the
\* component is unmounted, where they do nothing and the ref holds no timer.
NothingSet ==
    UNCHANGED <<bankFile, internalFile, isProcessing, currentJobId,
                logMessages, pollingIntervalRef, timers, stopped>>

\* The POST answers 2xx with a JSON body; jobId is its job_id field.
UploadSucceeded(i, jobId) ==
    /\ uploadReqs' = RemoveAt(uploadReqs, i)
    /\ IF mounted
       THEN /\ logMessages' = addLogs(logMessages,
                 <<Log("success", "Upload complete. Processing...")>>)
            /\ Render(jobId, isProcessing, Held)
            /\ UNCHANGED <<bankFile, internalFile>>
       ELSE NothingSet
    /\ UNCHANGED reportVars
    /\ UNCHANGED <<mounted, pollReqs, uploads>>

\* 2xx and a body { job_id }.
UploadOk(i) ==
    /\ i \in 1..Len(uploadReqs)
    /\ jobsIssued' = jobsIssued + 1
    /\ UploadSucceeded(i, JobIdOf(jobsIssued + 1))

\* 2xx and a JSON body without job_id.
UploadOkNoJobId(i) ==
    /\ i \in 1..Len(uploadReqs)
    /\ jobsIssued' = jobsIssued
    /\ UploadSucceeded(i, Undefined)

\* The POST fails: error is what the try block threw.
UploadFailed(i, error) ==
    /\ i \in 1..Len(uploadReqs)
    /\ uploadReqs' = RemoveAt(uploadReqs, i)
    /\ IF mounted THEN UploadCatch(error) ELSE NothingSet
    /\ UNCHANGED reportVars
    /\ UNCHANGED <<mounted, pollReqs, uploads, jobsIssued>>

(* ------------------------------ polling ------------------------------- *)

\* The interval t fires: its callback issues the GET and awaits it.
Tick(t) ==
    /\ t \in timers
    /\ Len(pollReqs) < MaxInFlight
    /\ pollReqs' = Append(pollReqs, t.job)
    /\ UNCHANGED reportVars
    /\ UNCHANGED <<mounted, bankFile, internalFile, isProcessing,
                   currentJobId, logMessages, pollingIntervalRef, timers,
                   uploadReqs, uploads, jobsIssued, stopped>>

\* A polling callback that looks for the terminal entry at the end of the
\* transcript it has just extended, not at the end of the batch.
PollOkInspectsTranscript(i, batch) ==
    /\ i \in 1..Len(pollReqs)
    /\ pollReqs' = RemoveAt(pollReqs, i)
    /\ IF mounted /\ Len(batch) > 0
       THEN /\ logMessages' = addLogs(logMessages, batch)
            /\ IF IsTerminal(addLogs(logMessages, batch)
                               [Len(addLogs(logMessages, batch))])
               THEN /\ Render(currentJobId, FALSE,
                              stopPolling(pollingIntervalRef, timers))
                    /\ bankFile' = Null
                    /\ internalFile' = Null
               ELSE UNCHANGED <<bankFile, internalFile, isProcessing,
                                currentJobId, pollingIntervalRef, timers,
                                stopped>>
       ELSE NothingSet
    /\ UNCHANGED reportVars
    /\ UNCHANGED <<mounted, uploadReqs, uploads, jobsIssued>>

\* A polling callback that takes an empty log list for the end of the job.
PollOkStopsOnEmpty(i, batch) ==
    /\ i \in 1..Len(pollReqs)
    /\ pollReqs' = RemoveAt(pollReqs, i)
    /\ IF mounted
       THEN /\ logMessages' = addLogs(logMessages, batch)
            /\ IF Len(batch) = 0 \/ IsTerminal(batch[Len(batch)])
               THEN /\ Render(currentJobId, FALSE,
                              stopPolling(pollingIntervalRef, timers))
                    /\ bankFile' = Null
                    /\ internalFile' = Null
               ELSE UNCHANGED <<bankFile, internalFile, isProcessing,
                                currentJobId, pollingIntervalRef, timers,
                                stopped>>
       ELSE NothingSet
    /\ UNCHANGED reportVars
    /\ UNCHANGED <<mounted, uploadReqs, uploads, jobsIssued>>

\* The GET answers 2xx with { logs: batch }.
PollOk(i, batch) ==
    /\ i \in 1..Len(pollReqs)
    /\ pollReqs' = RemoveAt(pollReqs, i)
    /\ IF mounted /\ Len(batch) > 0
       THEN /\ logMessages' = addLogs(logMessages, batch)
            /\ IF IsTerminal(batch[Len(batch)])
               THEN /\ Render(currentJobId, FALSE,
                              stopPolling(pollingIntervalRef, timers))
                    /\ bankFile' = Null
                    /\ internalFile' = Null
               ELSE UNCHANGED <<bankFile, internalFile, isProcessing,
                                currentJobId, pollingIntervalRef, timers,
                                stopped>>
       ELSE NothingSet
    /\ UNCHANGED reportVars
    /\ UNCHANGED <<mounted, uploadReqs, uploads, jobsIssued>>

\* Everything the try block of the polling callback may throw: the fetch
\* rejecting, or `throw new Error(`Server error: ${response.statusText}`)`.
PollErrors ==
    { NewError("Server error: " \o st) : st \in StatusTexts } \cup {NetworkError}

\* A catch branch that logs the failure and lets the interval run on.
PollCatchKeepsPolling(error) ==
    /\ logMessages' = addLogs(logMessages,
         <<Log("error", "Failed to fetch logs: " \o ErrorMessage(error))>>)
    /\ Render(currentJobId, isProcessing, Held)
    /\ UNCHANGED <<bankFile, internalFile>>

\* The catch branch of the polling callback.
PollCatch(error) ==
    /\ logMessages' = addLogs(logMessages,
         <<Log("error", "Failed to fetch logs: " \o ErrorMessage(error))>>)
    /\ Render(currentJobId, FALSE, stopPolling(pollingIntervalRef, timers))
    /\ UNCHANGED <<bankFile, internalFile>>

\* The GET fails: error is what the try block threw.
PollFailed(i, error) ==
    /\ i \in 1..Len(pollReqs)
    /\ pollReqs' = RemoveAt(pollReqs, i)
    /\ IF mounted THEN PollCatch(error) ELSE NothingSet
    /\ UNCHANGED reportVars
    /\ UNCHANGED <<mounted, uploadReqs, uploads, jobsIssued>>

\* The component is torn down: the effect's cleanup runs.
Unmount ==
    /\ mounted
    /\ mounted' = FALSE
    /\ LET c == EffectCleanup(pollingIntervalRef, timers)
       IN  /\ pollingIntervalRef' = c.ref
           /\ timers' = c.timers
           /\ stopped' = stopped \cup { t.job : t \in timers \ c.timers }
    /\ UNCHANGED <<bankFile, internalFile, isProcessing, currentJobId,
                   logMessages, uploadReqs, pollReqs, uploads, jobsIssued>>
    /\ UNCHANGED reportVars

(* --------------------------- specification ---------------------------- *)

Next ==
    \/ \E f \in FileNames \cup {Null} : onBankFileChange(f)
    \/ \E f \in FileNames \cup {Null} : onInternalFileChange(f)
    \/ ClickUploadBank
    \/ ClickUploadInternal
    \/ \E i \in 1..MaxUploads : UploadOk(i)
    \/ \E i \in 1..MaxUploads : UploadOkNoJobId(i)
    \/ \E i \in 1..MaxUploads, e \in UploadErrors : UploadFailed(i, e)
    \/ \E t \in timers : Tick(t)
    \/ \E i \in 1..MaxInFlight, b \in Batches : PollOk(i, b)
    \/ \E i \in 1..MaxInFlight, e \in PollErrors : PollFailed(i, e)
    \/ Unmount

Spec == Init /\ [][Next]_vars

\* handleUpload called with no file.  Both buttons that call it are disabled
\* while their file is null, so the user interface never makes this call;
\* SpecSubmit adds it to exercise the handler's own guard.
SubmitNoFile(endpoint) ==
    /\ mounted
    /\ handleUpload(Null, endpoint)

\* The pipeline of Spec with one upload fewer, which leaves room for the
\* transcripts that the extra entry multiplies.
PipelineStep ==
    /\ Next
    /\ uploads' < MaxUploads

NextSubmit ==
    \/ PipelineStep
    \/ \E endpoint \in {BankEndpoint, InternalEndpoint} : SubmitNoFile(endpoint)

SpecSubmit == Init /\ [][NextSubmit]_vars

TypeOK ==
    /\ mounted \in BOOLEAN
    /\ isProcessing \in BOOLEAN
    /\ bankFile \in FileNames \cup {Null}
    /\ internalFile \in FileNames \cup {Null}
    /\ \A k \in 1..Len(logMessages) : logMessages[k].type \in LogTypes
    /\ pollingIntervalRef \in 0..2
    /\ timers \subseteq [h : 1..2, job : { JobIdOf(n) : n \in 1..MaxUploads }]
    /\ Len(uploadReqs) <= MaxUploads
    /\ Len(pollReqs) <= MaxInFlight
    /\ reportYear \in YearOptions \cup {Null}
    /\ reportMonth \in MonthOptions \cup {Null}
    /\ isReportLoading \in BOOLEAN
    /\ dreData \in { DreFor(y, m) : y \in YearOptions, m \in MonthOptions }
                   \cup {Null}
    /\ Len(reportReqs) <= MaxReportsInFlight
    /\ dreTabActive \in BOOLEAN

(* ------------------------- shared vocabulary -------------------------- *)

\* The transcript holds an entry of this type and text.
Holds(logs, type, text) ==
    \E k \in 1..Len(logs) : logs[k].type = type /\ logs[k].text = text

\* text begins with prefix.
StartsWith(text, prefix) ==
    Len(text) >= Len(prefix) /\ SubSeq(text, 1, Len(prefix)) = prefix

\* No interval is live and the ref holds none.
NoPoller == timers = {} /\ pollingIntervalRef = NoTimer

\* The last entry of a non-empty transcript.
LastLog == logMessages[Len(logMessages)]

(* ------------------------------- C1 ----------------------------------- *)

\* C1: for every sequence of addLogs calls since the last reset, the
\* transcript never holds two entries with the same text.  (The entries are
\* kept in the order they were first appended: addLogs only ever extends
\* the transcript at its end.)  Stated as the claim states it; the code does
\* not filter a batch against itself, so a batch that repeats a text breaks it.
C1_NoDuplicateTexts ==
    \A i, j \in 1..Len(logMessages) :
        i # j => logMessages[i].text # logMessages[j].text

(* ------------------------------- C2 ----------------------------------- *)

\* C2: at most one get_logs request of a job is outstanding at any time.
\* Stated as the claim states it; the interval callback issues its fetch at
\* every tick, whether or not the previous one has resolved.
C2_OneOutstandingPoll ==
    \A i, j \in 1..Len(pollReqs) : i # j => pollReqs[i] # pollReqs[j]

(* ------------------------------- C3 ----------------------------------- *)

\* C3: once the poller of a job has been stopped, no tick fires for that job
\* and no response to one of its poll requests changes the transcript.
\* Stated as the claim states it; a request in flight when the poller stops
\* still runs its continuation, which calls addLogs.
C3_NothingAfterStop ==
    [][ /\ \A t \in timers : Tick(t) => t.job \notin stopped
        /\ \A i \in 1..Len(pollReqs) :
             pollReqs[i] \in stopped =>
               /\ \A b \in Batches :
                    PollOk(i, b) => logMessages' = logMessages
               /\ \A e \in PollErrors :
                    PollFailed(i, e) => logMessages' = logMessages ]_vars

(* ------------------------------- C4 ----------------------------------- *)

\* C4: in every reachable state at most one polling interval is live.
C4_AtMostOneInterval == Cardinality(timers) <= 1

\* An interval is live for a later job after an earlier job's was cleared,
\* with another upload still in flight.
C4_Witness ==
    /\ Cardinality(timers) = 1
    /\ stopped # {}
    /\ uploads >= 2
    /\ Len(uploadReqs) >= 1

(* ------------------------------- C5 ----------------------------------- *)

\* C5: while the controller is busy (isProcessing), no submit and no
\* file-chosen event is accepted: handleUpload and the two file-change
\* handlers do not run, and no upload request is issued or queued.
C5_BusyRejectsSubmitAndFileChoice ==
    [][ isProcessing /\ mounted =>
          /\ ~ClickUploadBank
          /\ ~ClickUploadInternal
          /\ \A f \in FileNames \cup {Null} :
               ~onBankFileChange(f) /\ ~onInternalFileChange(f)
          /\ uploads' = uploads
          /\ Len(uploadReqs') <= Len(uploadReqs) ]_vars

\* The controller is busy with a file still selected and a poller running:
\* only the disabled button stands between a click and a second upload.
C5_Witness ==
    /\ mounted
    /\ isProcessing
    /\ bankFile # Null
    /\ timers # {}
    /\ uploads < MaxUploads

(* ------------------------------- C6 ----------------------------------- *)

\* The shape the claim calls terminal: kind success or error, text with "Job".
C6_TerminalShaped(e) ==
    /\ e.type \in {"success", "error"}
    /\ \E i \in 1..(Len(e.text) - 2) : SubSeq(e.text, i, i + 2) = "Job"

\* C6: a poll response with a non-empty batch stops the poller and ends
\* Processing exactly when the last entry of the batch is terminal-shaped;
\* any other batch leaves the busy flag and the poller as they were.
C6_StopsIffLastEntryTerminal ==
    [][ \A i \in 1..Len(pollReqs), b \in Batches :
          PollOk(i, b) /\ mounted /\ Len(b) > 0 =>
            IF C6_TerminalShaped(b[Len(b)])
            THEN ~isProcessing' /\ NoPoller'
            ELSE /\ isProcessing' = isProcessing
                 /\ timers' = timers
                 /\ pollingIntervalRef' = pollingIntervalRef ]_vars

\* A poller was stopped by a batch ending in a success "Job" entry.
C6_Witness ==
    /\ mounted
    /\ currentJobId \in stopped
    /\ LastLog = Log("success", "Job abc finished successfully")
    /\ bankFile = Null /\ internalFile = Null
    /\ ~isProcessing
    /\ NoPoller

(* ------------------------------- C7 ----------------------------------- *)

C7_Uploading == Log("info", "Uploading a.pdf to /api/ingest...")

C7_Complete == Log("success", "Upload complete. Processing...")

C7_Final == Log("success", "Job abc finished successfully")

\* C7: from Idle with a file selected, a submit to /api/ingest makes the
\* controller Uploading; the answer {job_id: "abc"} makes it Processing with
\* the poller running; a get_logs answer holding only the success entry
\* "Job abc finished successfully" returns it to Idle with a transcript of
\* exactly the uploading, upload-complete and final entries, in this order.
C7_EndToEnd ==
    [][ /\ ClickUploadBank /\ bankFile = "a.pdf"
          => /\ isProcessing'
             /\ currentJobId' = Null
             /\ NoPoller'
             /\ logMessages' = <<C7_Uploading>>
        /\ ( /\ \E i \in 1..Len(uploadReqs) : UploadOk(i)
             /\ JobIdOf(jobsIssued + 1) = "abc"
             /\ mounted /\ isProcessing
             /\ logMessages = <<C7_Uploading>> )
          => /\ isProcessing'
             /\ currentJobId' = "abc"
             /\ \E h \in 1..2 : /\ timers' = {[h |-> h, job |-> "abc"]}
                                /\ pollingIntervalRef' = h
             /\ logMessages' = <<C7_Uploading, C7_Complete>>
        /\ ( /\ \E i \in 1..Len(pollReqs) :
                  pollReqs[i] = "abc" /\ PollOk(i, <<C7_Final>>)
             /\ mounted /\ isProcessing
             /\ logMessages = <<C7_Uploading, C7_Complete>> )
          => /\ ~isProcessing'
             /\ NoPoller'
             /\ logMessages' = <<C7_Uploading, C7_Complete, C7_Final>> ]_vars

\* The end of the trace: Idle again, the three entries in the transcript.
C7_Witness ==
    /\ mounted
    /\ currentJobId = "abc"
    /\ ~isProcessing
    /\ NoPoller
    /\ logMessages = <<C7_Uploading, C7_Complete, C7_Final>>

(* ------------------------------- C8 ----------------------------------- *)

\* An error entry that reports a failed get_logs request.
C8_FailureEntry(e) ==
    e.type = "error" /\ StartsWith(e.text, "Failed to fetch logs: ")

\* C8: when a get_logs request fails, the transcript holds an error entry
\* describing the failure (added at its end unless an entry with that text
\* is already there), the interval is cleared, isProcessing is false, and
\* no get_logs request is issued for that job ever again.
C8_PollFailureIsTerminal ==
    [][ /\ \A i \in 1..Len(pollReqs), e \in PollErrors :
             PollFailed(i, e) /\ mounted =>
               /\ \E k \in 1..Len(logMessages') :
                    /\ C8_FailureEntry(logMessages'[k])
                    /\ k > Len(logMessages) => k = Len(logMessages')
               /\ \/ logMessages' = logMessages
                  \/ /\ Len(logMessages') = Len(logMessages) + 1
                     /\ SubSeq(logMessages', 1, Len(logMessages)) = logMessages
               /\ NoPoller'
               /\ ~isProcessing'
               /\ pollReqs[i] \in stopped'
        /\ \A t \in timers : Tick(t) => t.job \notin stopped ]_vars

\* A poll of the current job failed and ended the session.
C8_Witness ==
    /\ mounted
    /\ currentJobId \in stopped
    /\ C8_FailureEntry(LastLog)
    /\ ~isProcessing
    /\ NoPoller

(* ------------------------------- C9 ----------------------------------- *)

\* An error entry that reports a failed upload.
C9_FailureEntry(e) ==
    e.type = "error" /\ StartsWith(e.text, "Upload failed: ")

\* C9: when the upload POST fails, an "Upload failed" error entry is in the
\* transcript, the controller is Idle (isProcessing false, job id null), no
\* poller runs and both file selections are cleared.  Stated as the claim
\* states it; the catch branch leaves currentJobId as it finds it.
C9_UploadFailureReturnsToIdle ==
    [][ \A i \in 1..Len(uploadReqs), e \in UploadErrors :
          UploadFailed(i, e) /\ mounted =>
            /\ \E k \in 1..Len(logMessages') : C9_FailureEntry(logMessages'[k])
            /\ ~isProcessing'
            /\ currentJobId' = Null
            /\ NoPoller'
            /\ bankFile' = Null
            /\ internalFile' = Null ]_vars

(* ------------------------------- C10 ---------------------------------- *)

\* C10: a 2xx upload response without job_id is a failure: the controller
\* does not stay busy, no poller starts, and an error entry is appended
\* instead of the "Upload complete" success entry.  Stated as the claim
\* states it; the code never looks at whether job_id is there.
C10_MissingJobIdIsProtocolError ==
    [][ \A i \in 1..Len(uploadReqs) :
          UploadOkNoJobId(i) /\ mounted =>
            /\ ~isProcessing'
            /\ NoPoller'
            /\ ~Holds(logMessages', "success", "Upload complete. Processing...")
            /\ Len(logMessages') > Len(logMessages)
            /\ logMessages'[Len(logMessages')].type = "error" ]_vars

(* ----------------------------- DRE report ----------------------------- *)

\* Click on a tab of the outer Tabs: every Tabs.Tab is disabled while
\* isProcessing.  dre says whether the tab clicked is "Monthly DRE".
SelectTab(dre) ==
    /\ mounted
    /\ ~isProcessing
    /\ dreTabActive' = dre
    /\ UNCHANGED <<reportYear, reportMonth, dreData, isReportLoading,
                   reportReqs>>
    /\ UNCHANGED <<mounted, bankFile, internalFile, isProcessing,
                   currentJobId, logMessages, pollingIntervalRef, timers,
                   uploadReqs, pollReqs, uploads, jobsIssued, stopped>>

\* Select onChange of the Month field: value is an option, or null when the
\* selected option is clicked again.
setReportMonth(value) ==
    /\ mounted
    /\ dreTabActive
    /\ reportMonth' = value
    /\ UNCHANGED <<reportYear, dreData, isReportLoading, reportReqs,
                   dreTabActive>>
    /\ UNCHANGED <<mounted, bankFile, internalFile, isProcessing,
                   currentJobId, logMessages, pollingIntervalRef, timers,
                   uploadReqs, pollReqs, uploads, jobsIssued, stopped>>

\* Select onChange of the Year field.
setReportYear(value) ==
    /\ mounted
    /\ dreTabActive
    /\ reportYear' = value
    /\ UNCHANGED <<reportMonth, dreData, isReportLoading, reportReqs,
                   dreTabActive>>
    /\ UNCHANGED <<mounted, bankFile, internalFile, isProcessing,
                   currentJobId, logMessages, pollingIntervalRef, timers,
                   uploadReqs, pollReqs, uploads, jobsIssued, stopped>>

\* handleGenerateReport without its check of the period.
handleGenerateReportUnchecked ==
    /\ mounted
    /\ dreTabActive
    /\ Len(reportReqs) < MaxReportsInFlight
    /\ isReportLoading' = TRUE
    /\ dreData' = Null
    /\ reportReqs' = Append(reportReqs,
                            [year |-> reportYear, month |-> reportMonth])
    /\ UNCHANGED <<reportYear, reportMonth, dreTabActive>>
    /\ UNCHANGED <<mounted, bankFile, internalFile, isProcessing,
                   currentJobId, logMessages, pollingIntervalRef, timers,
                   uploadReqs, pollReqs, uploads, jobsIssued, stopped>>

\* Click on "Generate Report": handleGenerateReport up to its await of the
\* GET.  The button has no disabled prop.  The alert of the first branch
\* changes no state.
handleGenerateReport ==
    /\ mounted
    /\ dreTabActive
    /\ IF reportYear = Null \/ reportMonth = Null
       THEN UNCHANGED <<isReportLoading, dreData, reportReqs>>
       ELSE /\ Len(reportReqs) < MaxReportsInFlight
            /\ isReportLoading' = TRUE
            /\ dreData' = Null
            /\ reportReqs' = Append(reportReqs,
                                    [year |-> reportYear, month |-> reportMonth])
    /\ UNCHANGED <<reportYear, reportMonth, dreTabActive>>
    /\ UNCHANGED <<mounted, bankFile, internalFile, isProcessing,
                   currentJobId, logMessages, pollingIntervalRef, timers,
                   uploadReqs, pollReqs, uploads, jobsIssued, stopped>>

\* The GET answers 2xx with the DRE of the period it asked for.
ReportOk(i) ==
    /\ i \in 1..Len(reportReqs)
    /\ reportReqs' = RemoveAt(reportReqs, i)
    /\ IF mounted
       THEN /\ dreData' = DreFor(reportReqs[i].year, reportReqs[i].month)
            /\ isReportLoading' = FALSE
       ELSE UNCHANGED <<dreData, isReportLoading>>
    /\ UNCHANGED <<reportYear, reportMonth, dreTabActive>>
    /\ UNCHANGED <<mounted, bankFile, internalFile, isProcessing,
                   currentJobId, logMessages, pollingIntervalRef, timers,
                   uploadReqs, pollReqs, uploads, jobsIssued, stopped>>

\* A catch branch that asks again for the same period.
ReportFailedRetries(i) ==
    /\ i \in 1..Len(reportReqs)
    /\ reportReqs' = Append(RemoveAt(reportReqs, i), reportReqs[i])
    /\ UNCHANGED <<reportYear, reportMonth, dreData, isReportLoading,
                   dreTabActive>>
    /\ UNCHANGED <<mounted, bankFile, internalFile, isProcessing,
                   currentJobId, logMessages, pollingIntervalRef, timers,
                   uploadReqs, pollReqs, uploads, jobsIssued, stopped>>

\* The GET fails or answers non-2xx: the catch branch alerts, the finally
\* branch ends the loading.
ReportFailed(i) ==
    /\ i \in 1..Len(reportReqs)
    /\ reportReqs' = RemoveAt(reportReqs, i)
    /\ IF mounted
       THEN isReportLoading' = FALSE
       ELSE UNCHANGED isReportLoading
    /\ UNCHANGED <<reportYear, reportMonth, dreData, dreTabActive>>
    /\ UNCHANGED <<mounted, bankFile, internalFile, isProcessing,
                   currentJobId, logMessages, pollingIntervalRef, timers,
                   uploadReqs, pollReqs, uploads, jobsIssued, stopped>>

\* The report tab on its own: no file is chosen and no upload is started.
NextReport ==
    \/ \E dre \in BOOLEAN : SelectTab(dre)
    \/ \E v \in MonthChoices \cup {Null} : setReportMonth(v)
    \/ \E v \in YearChoices \cup {Null} : setReportYear(v)
    \/ handleGenerateReport
    \/ \E i \in 1..MaxReportsInFlight : ReportOk(i)
    \/ \E i \in 1..MaxReportsInFlight : ReportFailed(i)
    \/ Unmount

SpecReport == Init /\ [][NextReport]_vars

\* The pipeline of Spec with room for a single upload less than SpecSubmit
\* and for one poll request less.
ShortPipelineStep ==
    /\ Next
    /\ uploads' < MaxUploads - 1
    /\ Len(pollReqs') < MaxInFlight

\* The whole page: the upload pipeline and the report tab side by side,
\* with one change of the report period.
NextPage ==
    \/ ShortPipelineStep
    \/ \E dre \in BOOLEAN : SelectTab(dre)
    \/ \E v \in {"1"} : setReportMonth(v)
    \/ handleGenerateReport
    \/ \E i \in 1..MaxReportsInFlight : ReportOk(i)
    \/ \E i \in 1..MaxReportsInFlight : ReportFailed(i)

SpecPage == Init /\ [][NextPage]_vars

(* ------------------------------- C11 ---------------------------------- *)

\* C11: every failure returns control to Idle; the controller never stays
\* busy with no request outstanding and no poller running, a state that no
\* response and no tick can ever end.  Stated as the claim states it; after
\* a 2xx upload response without job_id (C10) the code is in that state.
C11_NeverStuckBusy ==
    ~( /\ mounted
       /\ isProcessing
       /\ uploadReqs = <<>>
       /\ pollReqs = <<>>
       /\ timers = {} )

(* ------------------------------- C12 ---------------------------------- *)

NoFileEntry == Log("error", "No file selected to upload.")

\* C12: handleUpload with a null file issues no request and leaves the busy
\* flag, the job id, the file selection and the poller as they were; the
\* transcript is not reset: it gains the entry 'No file selected to upload.'
\* at its end unless an entry with that text is already there.
C12_NoFileOnlyLogs ==
    [][ \A endpoint \in {BankEndpoint, InternalEndpoint} :
          SubmitNoFile(endpoint) =>
            /\ UNCHANGED <<isProcessing, currentJobId, bankFile, internalFile,
                           pollingIntervalRef, timers, uploadReqs, pollReqs>>
            /\ logMessages' =
                 IF NoFileEntry.text \in Texts(logMessages)
                 THEN logMessages
                 ELSE Append(logMessages, NoFileEntry) ]_vars

\* The entry was appended to a transcript that was not reset, while a job
\* was being polled.
C12_Witness ==
    /\ logMessages[Len(logMessages)] = NoFileEntry
    /\ Len(logMessages) > 2
    /\ isProcessing
    /\ timers # {}

(* ------------------------------- C13 ---------------------------------- *)

Digits == {"0", "1", "2", "3", "4", "5", "6", "7", "8", "9"}

\* A month of 1..12 and a year of four digits.
ValidPeriod(year, month) ==
    /\ month \in { ToString(k) : k \in 1..12 }
    /\ Len(year) = 4
    /\ \A k \in 1..4 : SubSeq(year, k, k) \in Digits

C14_UploadStartLeavesOneEntry ==
    /\ \A l \in LogTypes, f \in FileNames :
         addLogs(<<>>, <<Log(l, f)>>) = <<Log(l, f)>>
    /\ [][ /\ ClickUploadBank =>
                logMessages' = <<Log("info", "Uploading " \o bankFile
                                     \o " to " \o BankEndpoint \o "...")>>
           /\ ClickUploadInternal =>
                logMessages' = <<Log("info", "Uploading " \o internalFile
                                     \o " to " \o InternalEndpoint \o "...")>>
         ]_vars

\* A second upload of the same file has started after polling of the first
\* failed: that upload started from a transcript holding the same
\* uploading entry and the failure entry.
C14_Witness ==
    /\ uploads = 2
    /\ logMessages = <<C7_Uploading>>
    /\ currentJobId = Null
    /\ stopped = {JobIdOf(1)}
    /\ internalFile = Null
    /\ Len(uploadReqs) = 1

(* ------------------------------- C15 ---------------------------------- *)

IsPrefix(old, new) ==
    /\ Len(old) <= Len(new)
    /\ \A k \in 1..Len(old) : new[k] = old[k]

\* C15: the transcript is append-only between resets.  Only a file
\* selection and an upload start reset it; every other step leaves the old
\* transcript as a prefix of the new one; and while the controller is busy
\* no step at all removes, replaces or reorders an entry.
C15_AppendOnlyBetweenResets ==
    /\ [][ \/ IsPrefix(logMessages, logMessages')
           \/ \E f \in FileNames : onBankFileChange(f)
           \/ \E f \in FileNames : onInternalFileChange(f)
           \/ ClickUploadBank
           \/ ClickUploadInternal ]_vars
    /\ [][ isProcessing => IsPrefix(logMessages, logMessages') ]_vars

\* A job in progress whose transcript has grown by server entries.
C15_Witness ==
    /\ isProcessing
    /\ timers # {}
    /\ Len(logMessages) >= 4
    /\ logMessages[1] = C7_Uploading
    /\ logMessages[2] = C7_Complete

(* ------------------------------- C16 ---------------------------------- *)

\* The poller reports Completed or Failed to the mounted component: a poll
\* response whose batch ends with a terminal entry.
ReportsTerminalBatch ==
    \E i \in 1..Len(pollReqs), b \in Batches :
        /\ mounted
        /\ Len(b) > 0
        /\ IsTerminal(b[Len(b)])
        /\ PollOk(i, b)

\* The poller reports Failed to the mounted component: a poll request fails.
ReportsPollFailure ==
    \E i \in 1..Len(pollReqs), e \in PollErrors : mounted /\ PollFailed(i, e)

\* The user selects a file.
SelectsFile ==
    \E f \in FileNames : onBankFileChange(f) \/ onInternalFileChange(f)

\* C16 as the claim states it: currentJobId is null after the poller has
\* reported Completed or Failed, and after any file selection.
C16_JobIdNullAfterTerminal ==
    [][ (ReportsTerminalBatch \/ ReportsPollFailure \/ SelectsFile) =>
          currentJobId' = Null ]_vars

\* C16, amended: a terminal batch and a poll failure leave currentJobId as
\* it was, with the poller stopped and isProcessing false, so the id of the
\* finished job stays until the next file selection or upload start, each
\* of which sets it to null.
C16_JobIdKeptUntilNextStart ==
    [][ /\ (ReportsTerminalBatch \/ ReportsPollFailure) =>
              /\ currentJobId' = currentJobId
              /\ ~isProcessing'
              /\ NoPoller'
        /\ (SelectsFile \/ ClickUploadBank \/ ClickUploadInternal) =>
              currentJobId' = Null ]_vars

\* Idle after a terminal entry, with the id of the finished job still held.
C16_Witness ==
    /\ mounted
    /\ ~isProcessing
    /\ currentJobId = JobIdOf(1)
    /\ NoPoller
    /\ C6_TerminalShaped(LastLog)
    /\ uploadReqs = <<>>
    /\ pollReqs = <<>>

(* ------------------------------- C17 ---------------------------------- *)

\* C17: whenever the poller reports Completed or Failed while the
\* controller is Processing, by a terminal batch or by a failed poll, the
\* poller is stopped, isProcessing becomes false, and bankFile and
\* internalFile are both null.
C17_TerminalClearsSelection ==
    [][ ( /\ isProcessing
          /\ TruthyId(currentJobId)
          /\ (ReportsTerminalBatch \/ ReportsPollFailure) ) =>
            /\ NoPoller'
            /\ ~isProcessing'
            /\ bankFile' = Null
            /\ internalFile' = Null ]_vars

(* ------------------------------- C18 ---------------------------------- *)

\* C18: batches are applied in the order of their poll requests: a batch is
\* never applied to the transcript while an earlier get_logs request of the
\* same job is still waiting for its response.  pollReqs is in issue order.
C18_BatchesInRequestOrder ==
    [][ \A i \in 1..Len(pollReqs), b \in Batches :
          (mounted /\ Len(b) > 0 /\ PollOk(i, b)) =>
            \A j \in 1..(i - 1) : pollReqs[j] # pollReqs[i] ]_vars

(* ------------------------------- C19 ---------------------------------- *)

\* C19: the interval is released on every exit path.  A live interval
\* exists only while the component is mounted, isProcessing is true and the
\* job id is non-null; it is the one pollingIntervalRef holds and it polls
\* the current job id; the ref holds no handle of a cleared interval.  A
\* terminal batch, a poll failure and a teardown leave no interval and a
\* null ref, and a change of the job id or of the busy flag clears every
\* interval that was live before it.
C19_IntervalReleased ==
    /\ [](/\ timers # {} =>
               mounted /\ isProcessing /\ TruthyId(currentJobId)
          /\ \A t \in timers :
               t.h = pollingIntervalRef /\ t.job = currentJobId
          /\ pollingIntervalRef # NoTimer =>
               \E t \in timers : t.h = pollingIntervalRef)
    /\ [][ /\ (ReportsTerminalBatch \/ ReportsPollFailure \/ Unmount) =>
                NoPoller'
           /\ (currentJobId' # currentJobId \/ isProcessing' # isProcessing) =>
                timers' \cap timers = {} ]_vars

\* Torn down in the middle of a job: the interval of the job was cleared
\* and the ref is null although isProcessing is still true.
C19_Witness ==
    /\ ~mounted
    /\ isProcessing
    /\ TruthyId(currentJobId)
    /\ currentJobId \in stopped
    /\ NoPoller

(* ------------------------------- C20 ---------------------------------- *)

\* C20: a successful poll response with an empty logs list is a no-op: the
\* transcript, the busy flag, the job id, the file selection, the ref and
\* the running interval are all as before, so the interval ticks again.
C20_EmptyBatchIsNoOp ==
    [][ \A i \in 1..Len(pollReqs) :
          PollOk(i, <<>>) =>
            UNCHANGED <<logMessages, isProcessing, currentJobId, bankFile,
                        internalFile, pollingIntervalRef, timers>> ]_vars

\* A job is being polled and a get_logs request awaits its response: here
\* an empty response arrives with the interval running.
C20_Witness ==
    /\ mounted
    /\ isProcessing
    /\ Len(pollReqs) = 1
    /\ \E t \in timers : t.job = currentJobId /\ t.job = pollReqs[1]
    /\ Len(logMessages) > 2

(* ------------------------------- C21 ---------------------------------- *)

\* A step of the report query: the click, or the arrival of a response.
ReportQueryStep ==
    \/ handleGenerateReport
    \/ \E i \in 1..Len(reportReqs) : ReportOk(i) \/ ReportFailed(i)

\* C21: the report query and the upload pipeline are independent.  A click
\* on Generate Report with a period issues exactly one GET, a response
\* (success or failure) takes its request away and issues none, and no step
\* of the query changes the transcript, the busy flag, the job id, the file
\* selection, the poller or the pipeline's requests; no step of the
\* pipeline changes dreData, isReportLoading, the selected period or the
\* report requests.
C21_ReportIndependent ==
    [][ /\ ReportQueryStep =>
             UNCHANGED <<logMessages, isProcessing, currentJobId, bankFile,
                         internalFile, pollingIntervalRef, timers,
                         uploadReqs, pollReqs>>
        /\ (handleGenerateReport /\ reportYear # Null /\ reportMonth # Null) =>
             Len(reportReqs') = Len(reportReqs) + 1
        /\ (\E i \in 1..Len(reportReqs) : ReportOk(i) \/ ReportFailed(i)) =>
             Len(reportReqs') = Len(reportReqs) - 1
        /\ Next =>
             UNCHANGED <<dreData, isReportLoading, reportYear, reportMonth,
                         reportReqs>> ]_vars

\* A report request and a poll request are outstanding at once, in the
\* middle of a job.
C21_Witness ==
    /\ mounted
    /\ isProcessing
    /\ timers # {}
    /\ pollReqs # <<>>
    /\ reportReqs # <<>>
    /\ isReportLoading

(* ------------------------------- C22 ---------------------------------- *)

\* C22: choosing a file replaces the whole transcript by the single info
\* entry "<Bank|Internal> file selected: <name>", stores the file in its own
\* slot and sets the job id to null; the busy flag and the other slot are
\* untouched.  A cancelled dialog (null) changes nothing at all.
C22_FileChosen ==
    [][ /\ \A f \in FileNames :
             /\ onBankFileChange(f) =>
                  /\ logMessages' = <<Log("info", "Bank file selected: " \o f)>>
                  /\ bankFile' = f
                  /\ currentJobId' = Null
                  /\ UNCHANGED <<isProcessing, internalFile>>
             /\ onInternalFileChange(f) =>
                  /\ logMessages' =
                       <<Log("info", "Internal file selected: " \o f)>>
                  /\ internalFile' = f
                  /\ currentJobId' = Null
                  /\ UNCHANGED <<isProcessing, bankFile>>
        /\ (onBankFileChange(Null) \/ onInternalFileChange(Null)) =>
             UNCHANGED vars ]_vars

\* An internal file chosen after a job has come to its end: the choice
\* replaced that job's transcript and dropped its id.
C22_Witness ==
    /\ internalFile # Null
    /\ logMessages = <<Log("info", "Internal file selected: " \o internalFile)>>
    /\ currentJobId = Null
    /\ ~isProcessing
    /\ JobIdOf(1) \in stopped
    /\ uploadReqs = <<>>

(* ------------------------------- C23 ---------------------------------- *)

\* C23: the termination decision looks at the last entry of the batch, not
\* at the transcript.  A batch whose last entry is terminal-shaped ends the
\* job also when the transcript already holds that text, so that the entry
\* itself is dropped and the first occurrence stays where it was; a batch
\* with a terminal-shaped entry before its last entry, and a last entry of
\* another shape, leaves the busy flag and the poller alone.
C23_DecisionByLastOfBatch ==
    [][ \A i \in 1..Len(pollReqs), b \in Batches :
          (mounted /\ Len(b) > 0 /\ PollOk(i, b)) =>
            /\ ( /\ C6_TerminalShaped(b[Len(b)])
                 /\ b[Len(b)].text \in Texts(logMessages) ) =>
                   /\ ~isProcessing'
                   /\ NoPoller'
                   /\ \A k \in 1..Len(logMessages) :
                        logMessages'[k] = logMessages[k]
                   /\ \A k \in (Len(logMessages) + 1)..Len(logMessages') :
                        logMessages'[k].text # b[Len(b)].text
            /\ ( /\ ~C6_TerminalShaped(b[Len(b)])
                 /\ \E k \in 1..(Len(b) - 1) : C6_TerminalShaped(b[k]) ) =>
                   UNCHANGED <<isProcessing, pollingIntervalRef, timers>>
      ]_vars

\* A job still being polled whose transcript holds, as an info entry, the
\* text of a terminal entry: a batch with a terminal-shaped first entry has
\* passed without ending the job, and the success entry of that text, when
\* it arrives, is a duplicate.
C23_Witness ==
    /\ mounted
    /\ isProcessing
    /\ timers # {}
    /\ pollReqs # <<>>
    /\ Holds(logMessages, "info", C7_Final.text)
    /\ Holds(logMessages, "error", "Job abc failed")

(* ------------------------------- C24 ---------------------------------- *)

\* The message the claim gives for the body of a non-2xx upload response:
\* detail.message, else detail when it is a string, else 'Upload failed'.
C24_Message(data) ==
    IF data.detail.t = "object" /\ data.detail.message.t = "string"
    THEN data.detail.message.s
    ELSE IF data.detail.t = "string"
         THEN data.detail.s
         ELSE "Upload failed"

\* C24: on a non-2xx upload response the transcript gets the error entry
\* "Upload failed: " followed by the server's message when the body has
\* one (detail.message, or detail as a string) and by the generic
\* 'Upload failed' when detail is an object without message or is absent.
C24_UploadErrorText ==
    [][ \A i \in 1..Len(uploadReqs), data \in ErrorBodies :
          (mounted /\ UploadFailed(i, UploadThrown(data))) =>
            Holds(logMessages', "error", "Upload failed: " \o C24_Message(data))
      ]_vars

(* ------------------------------- C25 ---------------------------------- *)

\* C25: a response to a poll request of an earlier job, arriving when a
\* later job has been submitted (the controller is busy and its job id is
\* not the one the request was made for), changes nothing of the later
\* job: not the busy flag, not the file selection, not the interval or the
\* ref, not the transcript.
C25_StaleResponseIgnored ==
    [][ \A i \in 1..Len(pollReqs) :
          ( /\ mounted
            /\ isProcessing
            /\ pollReqs[i] # currentJobId
            /\ \/ \E b \in Batches : PollOk(i, b)
               \/ \E e \in PollErrors : PollFailed(i, e) ) =>
            UNCHANGED <<isProcessing, bankFile, internalFile,
                        pollingIntervalRef, timers, logMessages>> ]_vars

(* ------------------------------- C26 ---------------------------------- *)

\* C26: every get_logs request is issued for the job id the most recent
\* successful upload returned, which is the current job id; none is issued
\* while an upload is still in flight, none for a job whose interval was
\* cleared before, and none before the "Upload complete" entry of its job
\* is in the transcript.
C26_PollsTheCurrentJobOnly ==
    [][ \A t \in timers :
          Tick(t) =>
            /\ t.job = JobIdOf(jobsIssued)
            /\ t.job = currentJobId
            /\ uploadReqs = <<>>
            /\ t.job \notin stopped
            /\ Holds(logMessages, C7_Complete.type, C7_Complete.text) ]_vars

(* ------------------------------- C27 ---------------------------------- *)

\* C27: whenever a report is held for display, it is the response to the
\* query for the year and month that are selected now, which are the ones
\* the title over it names.
C27_ReportMatchesSelection ==
    dreData # Null => dreData = DreFor(reportYear, reportMonth)

(* ------------------------------- C28 ---------------------------------- *)

\* C28: while the page is mounted, isReportLoading is true exactly while a
\* report request is outstanding, and dreData is null all that time; every
\* response, success or failure, leaves the flag false; a failure leaves
\* dreData null; a click with a missing year or month issues no request
\* and leaves dreData and the flag as they were.
C28_LoadingWhileOutstanding ==
    /\ [](mounted =>
            /\ isReportLoading <=> reportReqs # <<>>
            /\ reportReqs # <<>> => dreData = Null)
    /\ [][ /\ \A i \in 1..Len(reportReqs) :
                /\ (mounted /\ (ReportOk(i) \/ ReportFailed(i))) =>
                     ~isReportLoading'
                /\ (mounted /\ ReportFailed(i)) => dreData' = Null
           /\ (handleGenerateReport
                 /\ (reportYear = Null \/ reportMonth = Null)) =>
                UNCHANGED <<reportReqs, dreData, isReportLoading>> ]_vars

=============================================================================
